---- MODULE Spec2Model ----
(***************************************************************************)
(* A model of the gpu-profiler crate: the GpuProfiler ring of logical      *)
(* frames (src/src/shared.rs), the OpenGL frame-slot pool that drives the  *)
(* process-wide GpuProfiler (src/src/backend/opengl.rs), and the Vulkan    *)
(* frame slot that reports to it (src/src/backend/ash.rs).                 *)
(*                                                                         *)
(* A Rust panic (assert!, panic!, expect, an out-of-bounds index) is       *)
(* modelled as an outcome: the variable panic holds the message, the state *)
(* holds whatever the call had already written when it panicked, and no    *)
(* further call is made (the specification stops there).                   *)
(*                                                                         *)
(* The field born of a Scope, the field ended of a GlProfilerFrame, the    *)
(* field recording of a VulkanProfilerFrame and the variables op,          *)
(* lifecycle, held, active, vk_active, api and reported are history: they  *)
(* record which call was made last, during which logical frame a scope was *)
(* created or a slot ended, and what the caller holds, so that properties  *)
(* can speak about it.  No operation of the program reads them.            *)
(*                                                                         *)
(* GpuProfiler never inspects a scope name or a duration: it stores them,  *)
(* moves them and hands them back.  The callers of the model therefore     *)
(* name the scope created at position i of a scope table ScopeNames[i+1]   *)
(* and give the k-th pair of a report the duration DurationAt(k), which    *)
(* keeps positions distinguishable; the properties of Spec quantify over   *)
(* reports with any duration of Durations.                                 *)
(***************************************************************************)
EXTENDS Integers, Sequences, FiniteSets, TLC

\* ------------------------------------------------------------------ bounds
\* Spec: highest value frame_idx may reach, and highest number of scopes
\* created on one ring slot between two clears.
MaxFrame == 1
MaxScopes == 2
\* Spec: longest sequence of pairs handed to report_durations.
MaxPairs == 2
\* SpecRing: the same three bounds.
RingMaxFrame == 5
RingMaxScopes == 1
RingMaxPairs == 1
\* SpecGl: highest value frame_idx may reach, and highest number of scopes
\* created, and of scopes begun, in one frame.
GlMaxFrame == 3
GlMaxScopes == 1
\* SpecLag: highest value frame_idx may reach, and the number of scopes the
\* caller records in every frame.
LagMaxFrame == 10
LagScopes == 1
\* SpecSlots: highest value frame_idx may reach, and highest number of
\* scopes recorded in one frame.
SlotMaxFrame == 2
SlotMaxScopes == 2
\* SpecCapacity: highest number of scopes created, and of scopes begun, in
\* the one frame: one more than a slot of MAX_QUERY_COUNT entries takes.
CapacityMaxScopes == 1025

\* ------------------------------------------------------- program constants
MAX_FRAMES_IN_FLIGHT == 4
MAX_QUERY_COUNT == 1024
\* The bound of the sanity check of GlProfiler::end_frame on waiting_frames.
MAX_WAITING_FRAMES == 10

\* Scope names by position in a scope table, and the durations of reports.
ScopeNames == <<"draw", "blur", "post", "tone">>
NamesAt(i) == {ScopeNames[i + 1]}
DurationAt(k) == 250 * k
Durations == {250, 500}

\* --------------------------------------------------------------- variables
VARIABLES
    frames,        \* GpuProfiler.frames: ring slot (0..3) -> Frame
    frame_idx,     \* GpuProfiler.frame_idx
    last_report,   \* GpuProfiler.last_report: Option<TimedFrame>
    panic,         \* "" or the message of the panic that ended the run
    op,            \* history: the name of the last call
    lifecycle,     \* history: last successful begin_frame/end_frame on GpuProfiler
    current_frame, \* GlProfiler.current_frame: Option<GlProfilerFrame>
    waiting_frames,\* GlProfiler.waiting_frames: VecDeque<GlProfilerFrame>
    frame_pool,    \* GlProfiler.frame_pool: Vec<GlProfilerFrame>
    backend,       \* the GlBackend: its query objects
    held,          \* history: the ScopeId the caller got from create_scope last
    active,        \* history: the GlActiveScope the caller got from begin_scope last
    reported,      \* history: the frame slots reported so far, in order
    api,           \* which backend the application records through: "gl" or "vk"
    vk_frame,      \* the application's VulkanProfilerFrame
    vk_device,     \* the Vulkan device: the copy command it has yet to execute
    vk_active      \* history: the VulkanActiveScope the caller got last

pvars == <<frames, frame_idx, last_report>>
glvars == <<current_frame, waiting_frames, frame_pool, backend, held, active, reported>>
vkvars == <<api, vk_frame, vk_device, vk_active>>
vars == <<frames, frame_idx, last_report, panic, op, lifecycle,
          current_frame, waiting_frames, frame_pool, backend, held, active, reported,
          api, vk_frame, vk_device, vk_active>>

\* ------------------------------------------------------------------- types
\* FrameState (shared.rs:53-64).  index is 0 where the variant carries none.
Invalid == [tag |-> "Invalid", index |-> 0]
Begin(i) == [tag |-> "Begin", index |-> i]
End(i) == [tag |-> "End", index |-> i]
Reported == [tag |-> "Reported", index |-> 0]

\* born of a scope created while its ring slot was not in Begin.
NoFrame == 0 - 1

\* ScopeId (shared.rs:11-15)
ScopeId(f, s) == [frame |-> f, scope |-> s]

\* Option<TimedFrame> (shared.rs:76, 85-88)
None == [some |-> FALSE, scopes |-> <<>>]
Some(s) == [some |-> TRUE, scopes |-> s]

\* Default for Frame (shared.rs:66-70)
DefaultFrame == [state |-> Invalid, scopes |-> <<>>]

\* The GpuProfiler value held by the variables.
Profiler == [frames |-> frames, frame_idx |-> frame_idx, last_report |-> last_report]

\* Default for GpuProfiler (shared.rs:90-98)
DefaultProfiler ==
    [frames |-> [s \in 0..(MAX_FRAMES_IN_FLIGHT - 1) |-> DefaultFrame],
     frame_idx |-> 0,
     last_report |-> None]

\* ------------------------------------------------------------- GpuProfiler
\* The positions of the ring of frames.
RingSlots == 0..(MAX_FRAMES_IN_FLIGHT - 1)

\* frame_mut (shared.rs:179-182): the ring slot of the current frame.
frame_slot(p) == p.frame_idx % MAX_FRAMES_IN_FLIGHT

\* Results of the operations: the profiler afterwards, the panic message
\* ("" when the call returned), and what the call returned or consumed.
Result(p, msg) == [p |-> p, panic |-> msg]

\* A begin_frame without its assertion.
begin_frame_unchecked(p) ==
    LET s == frame_slot(p) IN
    Result([p EXCEPT !.frames[s] =
               [state |-> Begin(p.frame_idx), scopes |-> <<>>]], "")

\* begin_frame (shared.rs:101-112)
begin_frame(p) ==
    LET s == frame_slot(p) IN
    IF p.frames[s].state.tag = "Begin"
    THEN Result(p, "begin_frame called twice")
    ELSE Result([p EXCEPT !.frames[s] =
                     [state |-> Begin(p.frame_idx), scopes |-> <<>>]], "")

\* An end_frame that lets a frame be ended again.
end_frame_again(p) ==
    LET s == frame_slot(p)
        st == p.frames[s].state
    IN  IF st.tag \in {"Invalid", "Reported"}
        THEN Result(p, "end_frame called without begin_frame")
        ELSE Result([p EXCEPT !.frames[s].state = End(st.index),
                              !.frame_idx = p.frame_idx + 1], "")

\* An end_frame that advances frame_idx and leaves the frame in Begin.
end_frame_keep_begin(p) ==
    LET s == frame_slot(p)
        st == p.frames[s].state
    IN  CASE st.tag \in {"Invalid", "Reported"} ->
                Result(p, "end_frame called without begin_frame")
          [] st.tag = "End" ->
                Result(p, "end_frame called twice")
          [] st.tag = "Begin" ->
                Result([p EXCEPT !.frame_idx = p.frame_idx + 1], "")

\* An end_frame that ends the frame and leaves frame_idx as it was.
end_frame_no_advance(p) ==
    LET s == frame_slot(p)
        st == p.frames[s].state
    IN  CASE st.tag \in {"Invalid", "Reported"} ->
                Result(p, "end_frame called without begin_frame")
          [] st.tag = "End" ->
                Result(p, "end_frame called twice")
          [] st.tag = "Begin" ->
                Result([p EXCEPT !.frames[s].state = End(st.index)], "")

\* end_frame (shared.rs:114-125)
end_frame(p) ==
    LET s == frame_slot(p)
        st == p.frames[s].state
    IN  CASE st.tag \in {"Invalid", "Reported"} ->
                Result(p, "end_frame called without begin_frame")
          [] st.tag = "End" ->
                Result(p, "end_frame called twice")
          [] st.tag = "Begin" ->
                Result([p EXCEPT !.frames[s].state = End(st.index),
                                 !.frame_idx = p.frame_idx + 1], "")

\* create_scope (shared.rs:127-137); ret is the returned ScopeId.
create_scope(p, name) ==
    LET s == frame_slot(p)
        f == p.frames[s]
        born == IF f.state.tag = "Begin" THEN f.state.index ELSE NoFrame
    IN  [p |-> [p EXCEPT !.frames[s].scopes =
                    Append(f.scopes, [name |-> name, born |-> born])],
         panic |-> "",
         ret |-> ScopeId(p.frame_idx, Len(f.scopes))]

\* A collect that reads the name at the position of the pair in the report
\* instead of at the scope index the pair names.
RECURSIVE collect_by_position(_, _, _, _, _)
collect_by_position(scopes, durations, first, k, out) ==
    IF k > Len(durations)
    THEN [scopes |-> scopes, out |-> out, panic |-> "", consumed |-> k - 1]
    ELSE LET id == durations[k].scope_id IN
         IF k > 1 /\ id.frame # first
         THEN [scopes |-> scopes, out |-> out, consumed |-> k,
               panic |-> "assertion failed: scope_id.frame == first_scope_frame_idx"]
         ELSE IF k > Len(scopes)
         THEN [scopes |-> scopes, out |-> out, consumed |-> k,
               panic |-> "index out of bounds"]
         ELSE collect_by_position([scopes EXCEPT ![k].name = ""],
                      durations, first, k + 1,
                      Append(out, [name |-> scopes[k].name,
                                   duration |-> durations[k].duration]))

\* A collect that does not compare the frame of a pair with the first pair's.
RECURSIVE collect_any_frame(_, _, _, _, _)
collect_any_frame(scopes, durations, first, k, out) ==
    IF k > Len(durations)
    THEN [scopes |-> scopes, out |-> out, panic |-> "", consumed |-> k - 1]
    ELSE LET id == durations[k].scope_id IN
         IF id.scope >= Len(scopes)
         THEN [scopes |-> scopes, out |-> out, consumed |-> k,
               panic |-> "index out of bounds"]
         ELSE collect_any_frame([scopes EXCEPT ![id.scope + 1].name = ""],
                      durations, first, k + 1,
                      Append(out, [name |-> scopes[id.scope + 1].name,
                                   duration |-> durations[k].duration]))

\* The chained iterator of report_durations (shared.rs:160-173): pulls the
\* pairs one at a time; for each, checks its frame (not for the first pair,
\* which defines first), then moves the name out of scopes[scope].
\* Returns the scope table as left behind, the TimedScopes built, the panic
\* message and the number of pairs pulled from the iterator.
RECURSIVE collect(_, _, _, _, _)
collect(scopes, durations, first, k, out) ==
    IF k > Len(durations)
    THEN [scopes |-> scopes, out |-> out, panic |-> "", consumed |-> k - 1]
    ELSE LET id == durations[k].scope_id IN
         IF k > 1 /\ id.frame # first
         THEN [scopes |-> scopes, out |-> out, consumed |-> k,
               panic |-> "assertion failed: scope_id.frame == first_scope_frame_idx"]
         ELSE IF id.scope >= Len(scopes)
         THEN [scopes |-> scopes, out |-> out, consumed |-> k,
               panic |-> "index out of bounds"]
         ELSE LET sc == scopes[id.scope + 1] IN
              collect([scopes EXCEPT ![id.scope + 1].name = ""],
                      durations, first, k + 1,
                      Append(out, [name |-> sc.name,
                                   duration |-> durations[k].duration]))

\* The body of the closure of report_durations once the frame is found in End
\* with the index of the first pair (shared.rs:150, 160-175): the frame is
\* marked Reported, then the pairs are collected; last_report is assigned
\* only if no pair panicked.
report_frame(p, s, durations, first) ==
    LET c == collect(p.frames[s].scopes, durations, first, 1, <<>>)
        q == [p EXCEPT !.frames[s] = [state |-> Reported, scopes |-> c.scopes]]
    IN  IF c.panic # ""
        THEN [p |-> q, consumed |-> c.consumed, panic |-> c.panic]
        ELSE [p |-> [q EXCEPT !.last_report = Some(c.out)],
              consumed |-> c.consumed, panic |-> ""]

\* The panics of report_durations on the first pair (shared.rs:149-157).
report_refused(p, msg) == [p |-> p, consumed |-> 1, panic |-> msg]

\* A report_durations that keeps the previous report when handed no pair.
report_durations_keep(p, durations) ==
    IF durations = <<>>
    THEN [p |-> p, panic |-> "", consumed |-> 0]
    ELSE
    LET first == durations[1].scope_id.frame
        s == first % MAX_FRAMES_IN_FLIGHT
        st == p.frames[s].state
    IN  CASE st.tag = "End" /\ st.index # first ->
                report_refused(p, "assertion failed: index == first_scope_frame_idx")
          [] st.tag = "Reported" ->
                report_refused(p, "report_durations called twice")
          [] st.tag \in {"Invalid", "Begin"} ->
                report_refused(p, "report_durations called before end_frame")
          [] st.tag = "End" /\ st.index = first ->
                report_frame(p, s, durations, first)

\* A report_durations that accepts a frame already reported.
report_durations_again(p, durations) ==
    IF durations = <<>>
    THEN [p |-> [p EXCEPT !.last_report = None], panic |-> "", consumed |-> 0]
    ELSE
    LET first == durations[1].scope_id.frame
        s == first % MAX_FRAMES_IN_FLIGHT
        st == p.frames[s].state
    IN  CASE st.tag = "End" /\ st.index # first ->
                report_refused(p, "assertion failed: index == first_scope_frame_idx")
          [] st.tag = "Reported" ->
                report_frame(p, s, durations, first)
          [] st.tag \in {"Invalid", "Begin"} ->
                report_refused(p, "report_durations called before end_frame")
          [] st.tag = "End" /\ st.index = first ->
                report_frame(p, s, durations, first)

\* A report_durations that does not compare the index of End with the frame
\* of the first pair.
report_durations_stale(p, durations) ==
    IF durations = <<>>
    THEN [p |-> [p EXCEPT !.last_report = None], panic |-> "", consumed |-> 0]
    ELSE
    LET first == durations[1].scope_id.frame
        s == first % MAX_FRAMES_IN_FLIGHT
        st == p.frames[s].state
    IN  CASE st.tag = "Reported" ->
                report_refused(p, "report_durations called twice")
          [] st.tag \in {"Invalid", "Begin"} ->
                report_refused(p, "report_durations called before end_frame")
          [] st.tag = "End" ->
                report_frame(p, s, durations, first)

\* report_durations (shared.rs:139-177); consumed is the number of pairs
\* pulled from the iterator before the call returned or panicked.  With no
\* pair, next() is None and last_report is assigned None.
report_durations(p, durations) ==
    IF durations = <<>>
    THEN [p |-> [p EXCEPT !.last_report = None], panic |-> "", consumed |-> 0]
    ELSE
    LET first == durations[1].scope_id.frame
        s == first % MAX_FRAMES_IN_FLIGHT
        st == p.frames[s].state
    IN  CASE st.tag = "End" /\ st.index # first ->
                report_refused(p, "assertion failed: index == first_scope_frame_idx")
          [] st.tag = "Reported" ->
                report_refused(p, "report_durations called twice")
          [] st.tag \in {"Invalid", "Begin"} ->
                report_refused(p, "report_durations called before end_frame")
          [] st.tag = "End" /\ st.index = first ->
                report_frame(p, s, durations, first)

\* A take_last_report that hands out a copy and keeps the report.
take_last_report_keep(p) ==
    [p |-> p, panic |-> "", ret |-> p.last_report]

\* take_last_report (shared.rs:190-192); ret is the returned Option.
take_last_report(p) ==
    [p |-> [p EXCEPT !.last_report = None], panic |-> "", ret |-> p.last_report]

\* ---------------------------------------------------------- caller's inputs
\* The ScopeIds naming frames 0..maxFrame and scopes 0..maxScope.
ScopeIds(maxFrame, maxScope) ==
    {ScopeId(f, s) : f \in 0..maxFrame, s \in 0..maxScope}

\* The pairs a call may carry at position k: of the caller of the model
\* (free = FALSE) or of a property (free = TRUE).
PairsAt(ids, k, free) ==
    [scope_id : ids, duration : IF free THEN Durations ELSE {DurationAt(k)}]

\* report_durations pulls its pairs from a lazy iterator and stops pulling at
\* the pair it panics on, so a sequence behaves like the prefix the call
\* consumes.  Inputs(p, ids, n, free) is every sequence of at most n pairs
\* that the call on p consumes whole: the empty one, the single pairs, and
\* every extension by one pair of a sequence the call accepts.
RECURSIVE Consumed(_, _, _, _)
Consumed(p, ids, n, free) ==
    IF n = 0 THEN {<<>>}
    ELSE IF n = 1 THEN {<<x>> : x \in PairsAt(ids, 1, free)}
    ELSE LET shorter == Consumed(p, ids, n - 1, free)
             accepted == {d \in shorter : report_durations(p, d).panic = ""}
         IN  {Append(d, x) : d \in accepted, x \in PairsAt(ids, n, free)}
Inputs(p, ids, n, free) == UNION {Consumed(p, ids, k, free) : k \in 0..n}

\* Spec: a scope index of MaxScopes is out of range of every scope table.
SpecIds == ScopeIds(MaxFrame, MaxScopes)
RingIds == ScopeIds(RingMaxFrame, RingMaxScopes)

\* --------------------------------------------------------------- GlBackend
\* The trait GlBackend (opengl.rs:30-36) is implemented outside the crate.
\* Its query objects are handles <<n, i>>: the i-th of the n-th GenQueries
\* call.  A query is running between BeginQuery and EndQuery, then pending
\* (in the order the queries were ended) until the device completes it, then
\* available until it is begun again.
NoHandle == <<0, 0>>
NewBackend == [generated |-> 0, running |-> NoHandle, pending |-> <<>>, available |-> {}]

Without(q, h) == SelectSeq(q, LAMBDA x : x # h)

GenQueries(b) == [b EXCEPT !.generated = b.generated + 1]
BeginQuery(b, h) ==
    [b EXCEPT !.running = h, !.pending = Without(b.pending, h),
              !.available = b.available \ {h}]
EndQuery(b) ==
    IF b.running = NoHandle THEN b
    ELSE [b EXCEPT !.running = NoHandle, !.pending = Append(b.pending, b.running)]
\* The device completes the pending query h.
Complete(b, h) ==
    [b EXCEPT !.pending = Without(b.pending, h),
              !.available = b.available \cup {h}]
\* GetQueryObjectiv(handle, QUERY_RESULT_AVAILABLE)
QueryAvailable(b, h) == h \in b.available
\* GetQueryObjectui64v(handle, QUERY_RESULT): the elapsed time of query i.
QueryResult(h) == DurationAt(h[2] + 1)

\* ---------------------------------------------------------- GlProfilerFrame
\* query_scope_ids and results_buffer hold MAX_QUERY_COUNT entries, of which
\* no operation reads one at an index >= next_query_idx: read_results takes
\* the first next_query_idx of each, and begin_scope writes an entry as it
\* moves next_query_idx past it.  The model keeps the entries that can be
\* read: query_scope_ids has next_query_idx entries, and results_buffer has
\* the results read back for them, or none before that.
\* ScopeId::invalid() (shared.rs:18-23): both fields are u32::MAX, which the
\* model writes as -1 (the same residue modulo MAX_FRAMES_IN_FLIGHT).
InvalidScopeId == ScopeId(0 - 1, 0 - 1)

\* GlProfilerFrame::new (opengl.rs:52-61); n is the number of the GenQueries
\* call that made its handles.
NewGlProfilerFrame(n) ==
    [query_handles |-> n, next_query_idx |-> 0,
     query_scope_ids |-> <<>>, results_buffer |-> <<>>,
     ended |-> NoFrame]

Handle(f, i) == <<f.query_handles, i>>

\* GlProfilerFrame::begin_scope (opengl.rs:63-78): [f, b, panic, ret].
frame_begin_scope(f, b, scope_id) ==
    LET query_id == f.next_query_idx
        g == [f EXCEPT !.next_query_idx = query_id + 1]
    IN  IF query_id >= MAX_QUERY_COUNT
        THEN [f |-> g, b |-> b, panic |-> "index out of bounds", ret |-> NoHandle]
        ELSE [f |-> [g EXCEPT !.query_scope_ids = Append(f.query_scope_ids, scope_id)],
              b |-> BeginQuery(b, Handle(f, query_id)),
              panic |-> "",
              ret |-> Handle(f, query_id)]

\* GlProfilerFrame::end_scope (opengl.rs:80-83): [b, panic].
frame_end_scope(f, b, active_scope) ==
    IF f.next_query_idx = 0
    THEN [b |-> b, panic |-> "attempt to subtract with overflow"]
    ELSE IF active_scope # Handle(f, f.next_query_idx - 1)
    THEN [b |-> b, panic |->
            "assertion failed: active_scope.query_handle == self.query_handles[self.next_query_idx - 1]"]
    ELSE [b |-> EndQuery(b), panic |-> ""]

\* A read_results that asks only whether the last query is available.
read_results_last_only(f, b) ==
    LET result_count == f.next_query_idx
        results_available ==
            result_count > 0 => QueryAvailable(b, Handle(f, result_count - 1))
        buf == [i \in 1..result_count |-> QueryResult(Handle(f, i - 1))]
    IN  IF results_available
        THEN [some |-> TRUE,
              f |-> [f EXCEPT !.results_buffer = buf],
              pairs |-> [i \in 1..result_count |->
                            [scope_id |-> f.query_scope_ids[i],
                             duration |-> buf[i]]]]
        ELSE [some |-> FALSE, f |-> f, pairs |-> <<>>]

\* A read_results that has nothing to return for a slot without queries.
read_results_needs_query(f, b) ==
    LET result_count == f.next_query_idx
        results_available ==
            /\ result_count > 0
            /\ \A i \in 0..(result_count - 1) : QueryAvailable(b, Handle(f, i))
        buf == [i \in 1..result_count |-> QueryResult(Handle(f, i - 1))]
    IN  IF results_available
        THEN [some |-> TRUE,
              f |-> [f EXCEPT !.results_buffer = buf],
              pairs |-> [i \in 1..result_count |->
                            [scope_id |-> f.query_scope_ids[i],
                             duration |-> buf[i]]]]
        ELSE [some |-> FALSE, f |-> f, pairs |-> <<>>]

\* GlProfilerFrame::read_results (opengl.rs:85-113): [some, f, pairs].
read_results(f, b) ==
    LET result_count == f.next_query_idx
        results_available ==
            \A i \in 0..(result_count - 1) : QueryAvailable(b, Handle(f, i))
        buf == [i \in 1..result_count |-> QueryResult(Handle(f, i - 1))]
    IN  IF results_available
        THEN [some |-> TRUE,
              f |-> [f EXCEPT !.results_buffer = buf],
              pairs |-> [i \in 1..result_count |->
                            [scope_id |-> f.query_scope_ids[i],
                             duration |-> buf[i]]]]
        ELSE [some |-> FALSE, f |-> f, pairs |-> <<>>]

\* A reset that leaves next_query_idx as it is.
reset_keep(f) == [f EXCEPT !.ended = NoFrame]

\* GlProfilerFrame::reset (opengl.rs:115-117)
reset(f) ==
    [f EXCEPT !.next_query_idx = 0, !.query_scope_ids = <<>>,
              !.results_buffer = <<>>, !.ended = NoFrame]

\* --------------------------------------------------------------- GlProfiler
NoFrameSlot == [some |-> FALSE, f |-> NewGlProfilerFrame(0)]
SomeFrame(f) == [some |-> TRUE, f |-> f]

\* The GlProfiler, its backend and the process-wide GpuProfiler it drives
\* (crate::profiler(), shared.rs:5-9), as one value.
Gl == [current_frame |-> current_frame, waiting_frames |-> waiting_frames,
       frame_pool |-> frame_pool, backend |-> backend,
       profiler |-> Profiler, reported |-> reported]

\* GlProfiler::new (opengl.rs:120-130)
NewGlProfiler ==
    [current_frame |-> NoFrameSlot, waiting_frames |-> <<>>, frame_pool |-> <<>>]

GlResult(g, msg) == [g |-> g, panic |-> msg]

\* A try_get_results that reports every awaiting slot whose results are
\* available, wherever it stands in the queue.
RECURSIVE try_get_results_any(_)
try_get_results_any(g) ==
    LET ready == {i \in 1..Len(g.waiting_frames) :
                     read_results(g.waiting_frames[i], g.backend).some}
    IN  IF ready = {} THEN GlResult(g, "")
        ELSE LET i == CHOOSE j \in ready : \A k \in ready : j <= k
                 r == read_results(g.waiting_frames[i], g.backend)
                 rep == report_durations(g.profiler, r.pairs)
                 rest == [k \in 1..(Len(g.waiting_frames) - 1) |->
                             IF k < i THEN g.waiting_frames[k]
                             ELSE g.waiting_frames[k + 1]]
             IN  IF rep.panic # ""
                 THEN GlResult([g EXCEPT !.profiler = rep.p], rep.panic)
                 ELSE try_get_results_any(
                          [g EXCEPT !.profiler = rep.p,
                                    !.waiting_frames = rest,
                                    !.frame_pool = Append(g.frame_pool, reset(r.f)),
                                    !.reported = Append(g.reported, r.f.ended)])

\* GlProfiler::try_get_results (opengl.rs:180-197)
RECURSIVE try_get_results(_)
try_get_results(g) ==
    IF g.waiting_frames = <<>> THEN GlResult(g, "")
    ELSE LET r == read_results(Head(g.waiting_frames), g.backend) IN
         IF ~r.some THEN GlResult(g, "")
         ELSE LET rep == report_durations(g.profiler, r.pairs)
                  read == [g EXCEPT !.waiting_frames[1] = r.f,
                                    !.profiler = rep.p]
              IN  IF rep.panic # "" THEN GlResult(read, rep.panic)
                  ELSE try_get_results(
                           [read EXCEPT !.waiting_frames = Tail(g.waiting_frames),
                                        !.frame_pool = Append(g.frame_pool, reset(r.f)),
                                        !.reported = Append(g.reported, r.f.ended)])

\* A begin_frame that constructs a slot for every frame and leaves the
\* free pool alone.
gl_begin_frame_fresh(g) ==
    IF g.current_frame.some THEN GlResult(g, "begin_frame called twice")
    ELSE
    LET t == try_get_results(g) IN
    IF t.panic # "" THEN t
    ELSE
    LET beg == begin_frame(t.g.profiler)
        h == [t.g EXCEPT !.profiler = beg.p]
    IN  IF beg.panic # "" THEN GlResult(h, beg.panic)
        ELSE GlResult([h EXCEPT
                 !.backend = GenQueries(h.backend),
                 !.current_frame =
                     SomeFrame(NewGlProfilerFrame(h.backend.generated + 1))], "")

\* GlProfiler::begin_frame (opengl.rs:132-144)
gl_begin_frame(g) ==
    IF g.current_frame.some THEN GlResult(g, "begin_frame called twice")
    ELSE
    LET t == try_get_results(g) IN
    IF t.panic # "" THEN t
    ELSE
    LET beg == begin_frame(t.g.profiler)
        h == [t.g EXCEPT !.profiler = beg.p]
        n == Len(h.frame_pool)
    IN  IF beg.panic # "" THEN GlResult(h, beg.panic)
        ELSE IF n > 0
        THEN GlResult([h EXCEPT
                 !.current_frame = SomeFrame(h.frame_pool[n]),
                 !.frame_pool = SubSeq(h.frame_pool, 1, n - 1)], "")
        ELSE GlResult([h EXCEPT
                 !.backend = GenQueries(h.backend),
                 !.current_frame =
                     SomeFrame(NewGlProfilerFrame(h.backend.generated + 1))], "")

\* A GlProfiler::end_frame without its sanity check.
gl_end_frame_unbounded(g) ==
    IF ~g.current_frame.some
    THEN GlResult(g, "end_frame called before begin_frame")
    ELSE
    LET f == [g.current_frame.f EXCEPT !.ended = g.profiler.frame_idx]
        h == [g EXCEPT !.current_frame = NoFrameSlot,
                       !.waiting_frames = Append(g.waiting_frames, f)]
        e == end_frame(h.profiler)
    IN  GlResult([h EXCEPT !.profiler = e.p], e.panic)

\* GlProfiler::end_frame (opengl.rs:146-160)
gl_end_frame(g) ==
    IF ~g.current_frame.some
    THEN GlResult(g, "end_frame called before begin_frame")
    ELSE
    LET f == [g.current_frame.f EXCEPT !.ended = g.profiler.frame_idx]
        h == [g EXCEPT !.current_frame = NoFrameSlot,
                       !.waiting_frames = Append(g.waiting_frames, f)]
    IN  IF ~(Len(h.waiting_frames) < MAX_WAITING_FRAMES)
        THEN GlResult(h, "OpenGL queries failed to become available")
        ELSE LET e == end_frame(h.profiler) IN
             GlResult([h EXCEPT !.profiler = e.p], e.panic)

\* GlProfiler::begin_scope (opengl.rs:162-171): [g, panic, ret].
gl_begin_scope(g, scope_id) ==
    IF ~g.current_frame.some
    THEN [g |-> g, panic |-> "begin_scope called before begin_frame", ret |-> NoHandle]
    ELSE LET r == frame_begin_scope(g.current_frame.f, g.backend, scope_id) IN
         [g |-> [g EXCEPT !.current_frame = SomeFrame(r.f), !.backend = r.b],
          panic |-> r.panic, ret |-> r.ret]

\* GlProfiler::end_scope (opengl.rs:173-178)
gl_end_scope(g, active_scope) ==
    IF ~g.current_frame.some
    THEN GlResult(g, "end_scope called before begin_frame")
    ELSE LET r == frame_end_scope(g.current_frame.f, g.backend, active_scope) IN
         GlResult([g EXCEPT !.backend = r.b], r.panic)

\* ----------------------------------------------------- VulkanProfilerFrame
\* A u64 is kept as its two 32-bit words.  as_u64 and from_u64 pack a ScopeId
\* into one and back; the order of ScopeIds is by frame, then scope, each
\* compared as the unsigned number it is (u32::MAX is written -1 here).
as_u64(scope_id) == [hi |-> scope_id.frame, lo |-> scope_id.scope]
from_u64(w) == ScopeId(w.hi, w.lo)
u32_lt(a, b) == IF a < 0 THEN FALSE ELSE IF b < 0 THEN TRUE ELSE a < b
scope_id_lt(a, b) ==
    \/ u32_lt(a.frame, b.frame)
    \/ a.frame = b.frame /\ u32_lt(a.scope, b.scope)

\* The tick periods a device may report, as fractions of a nanosecond, and
\* the [start, end] tick pairs it may write for a query.
Periods == {[num |-> 1, den |-> 1], [num |-> 2, den |-> 1], [num |-> 1, den |-> 2]}
TickPairs == {<<1000, 1500>>, <<1500, 1000>>, <<4, 7>>}

\* query_scope_ids holds the entries below next_query_idx; those above are
\* never read before they are written again.  Its length in the program is
\* that of the range 1..MAX_QUERY_COUNT (ash.rs:48).  buffer is what the
\* device has copied into the mapped memory so far.
query_scope_ids_len == MAX_QUERY_COUNT - 1

\* recording is history: whether begin_frame was called and end_frame has not
\* been since.
NewVulkanProfilerFrame(period) ==
    [next_query_idx |-> 0, query_scope_ids |-> <<>>, buffer |-> <<>>,
     timestamp_period |-> period, recording |-> FALSE]

NoQuery == 0 - 1
VkResult(f, msg, ret) == [f |-> f, panic |-> msg, ret |-> ret]

\* begin_scope (ash.rs:56-79): fetch_add, then the indexed store.
vk_begin_scope(f, scope_id) ==
    LET query_id == f.next_query_idx
        f1 == [f EXCEPT !.next_query_idx = query_id + 1]
    IN IF query_id >= query_scope_ids_len
       THEN VkResult(f1, "index out of bounds", NoQuery)
       ELSE VkResult([f1 EXCEPT !.query_scope_ids =
                          Append(SubSeq(@, 1, query_id), as_u64(scope_id))],
                     "", query_id)

\* end_scope (ash.rs:81-95) writes a timestamp command and nothing else.
vk_end_scope(f, active_scope) == VkResult(f, "", NoQuery)

\* end_frame (ash.rs:110-127): the copy command for the queries used, which
\* the device executes later.
vk_end_frame(f, device) == Append(device, f.next_query_idx)

\* The device executes the oldest copy command: it writes one tick pair for
\* each query copied and leaves the rest of the buffer as it was.
Copied(buffer, ticks) ==
    [i \in 1..(IF Len(ticks) > Len(buffer) THEN Len(ticks) ELSE Len(buffer)) |->
        IF i <= Len(ticks) THEN ticks[i] ELSE buffer[i]]

TicksOf(n) == [1..n -> TickPairs]

\* What the mapped memory may hold in its first n entries: what the device
\* has written, and anything where it has written nothing yet.
mapped_slice(f, n) ==
    {m \in TicksOf(n) :
        \A i \in 1..n : i <= Len(f.buffer) => m[i] = f.buffer[i]}

\* sort_unstable_by_key (ash.rs:168): the orders of the pairs in which no
\* ScopeId comes before a smaller one.
Sorted(s) == \A i, j \in 1..Len(s) :
                 i < j => ~scope_id_lt(s[j].scope_id, s[i].scope_id)

\* A sort that puts the greatest ScopeId first.
sort_descending(s) ==
    {t \in {[i \in 1..Len(s) |-> s[p[i]]] : p \in Permutations(1..Len(s))} :
        \A i, j \in 1..Len(t) :
            i < j => ~scope_id_lt(t[i].scope_id, t[j].scope_id)}

sort_unstable_by_key(s) ==
    {t \in {[i \in 1..Len(s) |-> s[p[i]]] : p \in Permutations(1..Len(s))} : Sorted(t)}

\* retrieve_previous_results (ash.rs:144-171), given the mapped memory.
retrieve_previous_results(f, mapped) ==
    LET valid_query_count == f.next_query_idx IN
    sort_unstable_by_key(
        [i \in 1..valid_query_count |->
            [scope_id |-> from_u64(f.query_scope_ids[i]), ticks |-> mapped[i]]])

\* The conversion of report_durations (ash.rs:133-140): the saturating
\* difference, multiplied by the period and cut to a whole number.
signed_sub(a, b) == a - b
saturating_sub(a, b) == IF a >= b THEN a - b ELSE 0

duration_ns(duration_range, period) ==
    (saturating_sub(duration_range[2], duration_range[1]) * period.num)
        \div period.den

\* report_durations (ash.rs:129-142) on the process-wide GpuProfiler.
vk_report_durations(f, p, previous_results) ==
    report_durations(p,
        [i \in 1..Len(previous_results) |->
            [scope_id |-> previous_results[i].scope_id,
             duration |-> duration_ns(previous_results[i].ticks,
                                      f.timestamp_period)]])

\* begin_frame (ash.rs:98-107): the report, then the counter back to zero.
vk_begin_frame(f, p, previous_results) ==
    LET r == vk_report_durations(f, p, previous_results) IN
    IF r.panic # ""
    THEN [f |-> f, p |-> r.p, panic |-> r.panic]
    ELSE [f |-> [f EXCEPT !.next_query_idx = 0, !.query_scope_ids = <<>>],
          p |-> r.p, panic |-> ""]

\* ------------------------------------------------------------------ actions
SetProfiler(p) ==
    /\ frames' = p.frames
    /\ frame_idx' = p.frame_idx
    /\ last_report' = p.last_report

InitProfilers ==
    /\ frames = DefaultProfiler.frames
    /\ frame_idx = DefaultProfiler.frame_idx
    /\ last_report = DefaultProfiler.last_report
    /\ panic = ""
    /\ op = "new"
    /\ lifecycle = "none"
    /\ current_frame = NewGlProfiler.current_frame
    /\ waiting_frames = NewGlProfiler.waiting_frames
    /\ frame_pool = NewGlProfiler.frame_pool
    /\ backend = NewBackend
    /\ held = InvalidScopeId
    /\ active = NoHandle
    /\ reported = <<>>
    /\ vk_device = <<>>
    /\ vk_active = NoQuery

\* The application records through a GlProfiler.
Init ==
    /\ InitProfilers
    /\ api = "gl"
    /\ vk_frame = NewVulkanProfilerFrame([num |-> 1, den |-> 1])

\* The application records through a VulkanProfilerFrame, on a device with
\* any of the tick periods.
InitVk ==
    /\ InitProfilers
    /\ api = "vk"
    /\ \E period \in Periods : vk_frame = NewVulkanProfilerFrame(period)

BeginFrame ==
    /\ panic = ""
    /\ UNCHANGED vkvars
    /\ UNCHANGED glvars
    /\ LET r == begin_frame(Profiler) IN
       /\ SetProfiler(r.p)
       /\ panic' = r.panic
       /\ lifecycle' = IF r.panic = "" THEN "begin_frame" ELSE lifecycle
    /\ op' = "begin_frame"

EndFrame(maxFrame) ==
    /\ panic = ""
    /\ UNCHANGED vkvars
    /\ UNCHANGED glvars
    /\ frame_idx < maxFrame
    /\ LET r == end_frame(Profiler) IN
       /\ SetProfiler(r.p)
       /\ panic' = r.panic
       /\ lifecycle' = IF r.panic = "" THEN "end_frame" ELSE lifecycle
    /\ op' = "end_frame"

CreateScope(maxScopes) ==
    /\ panic = ""
    /\ UNCHANGED vkvars
    /\ UNCHANGED glvars
    /\ Len(frames[frame_slot(Profiler)].scopes) < maxScopes
    /\ \E name \in NamesAt(Len(frames[frame_slot(Profiler)].scopes)) :
         LET r == create_scope(Profiler, name) IN
         /\ SetProfiler(r.p)
         /\ panic' = r.panic
    /\ op' = "create_scope"
    /\ UNCHANGED lifecycle

ReportDurations(ids, maxPairs) ==
    /\ panic = ""
    /\ UNCHANGED vkvars
    /\ UNCHANGED glvars
    /\ \E durations \in Inputs(Profiler, ids, maxPairs, FALSE) :
         LET r == report_durations(Profiler, durations) IN
         /\ SetProfiler(r.p)
         /\ panic' = r.panic
    /\ op' = "report_durations"
    /\ UNCHANGED lifecycle

\* last_report (shared.rs:186-188) returns a reference and writes nothing.
LastReport ==
    /\ panic = ""
    /\ UNCHANGED vkvars
    /\ op' = "last_report"
    /\ UNCHANGED <<frames, frame_idx, last_report, panic, lifecycle>>
    /\ UNCHANGED glvars

TakeLastReport ==
    /\ panic = ""
    /\ UNCHANGED vkvars
    /\ UNCHANGED glvars
    /\ LET r == take_last_report(Profiler) IN
       /\ SetProfiler(r.p)
       /\ panic' = r.panic
    /\ op' = "take_last_report"
    /\ UNCHANGED lifecycle

\* Spec: every operation of GpuProfiler with every input, over few frames.
Next ==
    \/ BeginFrame
    \/ EndFrame(MaxFrame)
    \/ CreateScope(MaxScopes)
    \/ ReportDurations(SpecIds, MaxPairs)
    \/ LastReport
    \/ TakeLastReport

Spec == Init /\ [][Next]_vars

\* SpecRing: the frame protocol over enough frames for the ring to wrap.
NextRing ==
    \/ BeginFrame
    \/ EndFrame(RingMaxFrame)
    \/ CreateScope(RingMaxScopes)
    \/ ReportDurations(RingIds, RingMaxPairs)
    \/ TakeLastReport

SpecRing == Init /\ [][NextRing]_vars

\* ------------------------------------------------------ actions: GlProfiler
SetGl(g) ==
    /\ SetProfiler(g.profiler)
    /\ current_frame' = g.current_frame
    /\ waiting_frames' = g.waiting_frames
    /\ frame_pool' = g.frame_pool
    /\ backend' = g.backend
    /\ reported' = g.reported

\* What a successful GlProfiler call leaves as the last successful
\* begin_frame/end_frame of the GpuProfiler.
Lifecycle(g) ==
    IF g.profiler.frame_idx # frame_idx THEN "end_frame"
    ELSE IF g.profiler.frames[frame_slot(Profiler)].state.tag = "Begin"
            /\ frames[frame_slot(Profiler)].state.tag # "Begin"
    THEN "begin_frame"
    ELSE lifecycle

GlBeginFrame ==
    /\ panic = ""
    /\ UNCHANGED vkvars
    /\ LET r == gl_begin_frame(Gl) IN
       /\ SetGl(r.g)
       /\ panic' = r.panic
       /\ lifecycle' = Lifecycle(r.g)
    /\ op' = "gl_begin_frame"
    /\ UNCHANGED <<held, active>>

GlEndFrame(maxFrame) ==
    /\ panic = ""
    /\ UNCHANGED vkvars
    /\ frame_idx < maxFrame
    /\ LET r == gl_end_frame(Gl) IN
       /\ SetGl(r.g)
       /\ panic' = r.panic
       /\ lifecycle' = Lifecycle(r.g)
    /\ op' = "gl_end_frame"
    /\ UNCHANGED <<held, active>>

\* crate::profiler().create_scope(name), the caller keeping the ScopeId.
GlCreateScope(maxScopes) ==
    /\ panic = ""
    /\ UNCHANGED vkvars
    /\ Len(frames[frame_slot(Profiler)].scopes) < maxScopes
    /\ \E name \in NamesAt(Len(frames[frame_slot(Profiler)].scopes)) :
         LET r == create_scope(Profiler, name) IN
         /\ SetProfiler(r.p)
         /\ panic' = r.panic
         /\ held' = r.ret
    /\ op' = "create_scope"
    /\ UNCHANGED <<lifecycle, current_frame, waiting_frames, frame_pool,
                   backend, active, reported>>

\* GlProfiler::begin_scope with the ScopeId the caller holds, which it
\* passes on once.
GlBeginScope(maxScopes) ==
    /\ panic = ""
    /\ UNCHANGED vkvars
    /\ held # InvalidScopeId
    /\ current_frame.some => current_frame.f.next_query_idx < maxScopes
    /\ LET r == gl_begin_scope(Gl, held) IN
       /\ SetGl(r.g)
       /\ panic' = r.panic
       /\ active' = IF r.panic = "" THEN r.ret ELSE active
    /\ held' = InvalidScopeId
    /\ op' = "gl_begin_scope"
    /\ UNCHANGED lifecycle

\* GlProfiler::end_scope with the GlActiveScope the caller holds, which the
\* call consumes.
GlEndScope ==
    /\ panic = ""
    /\ UNCHANGED vkvars
    /\ active # NoHandle
    /\ LET r == gl_end_scope(Gl, active) IN
       /\ SetGl(r.g)
       /\ panic' = r.panic
    /\ active' = NoHandle
    /\ op' = "gl_end_scope"
    /\ UNCHANGED <<lifecycle, held>>

\* The device completes a pending query; which one is for it to choose.
BackendComplete ==
    /\ panic = ""
    /\ UNCHANGED vkvars
    /\ \E i \in 1..Len(backend.pending) :
         backend' = Complete(backend, backend.pending[i])
    /\ op' = "backend_complete"
    /\ UNCHANGED <<pvars, panic, lifecycle, current_frame, waiting_frames,
                   frame_pool, held, active, reported>>

\* A caller that records its scopes as documented: within a frame being
\* recorded, and each scope by create_scope, begin_scope, end_scope before it
\* turns to the next.
Recording == current_frame.some
Idle == held = InvalidScopeId /\ active = NoHandle

CallerCreateScope(maxScopes) ==
    /\ Recording /\ Idle
    /\ GlCreateScope(maxScopes)

CallerBeginScope(maxScopes) ==
    /\ Recording
    /\ GlBeginScope(maxScopes)

CallerEndScope ==
    /\ Recording
    /\ GlEndScope

\* SpecGl: a caller that begins and ends frames as it likes, on the
\* GlProfiler and on the process-wide GpuProfiler it drives, with a backend
\* that completes queries in any order.
NextGl ==
    \/ GlBeginFrame
    \/ GlEndFrame(GlMaxFrame)
    \/ CallerCreateScope(GlMaxScopes)
    \/ CallerBeginScope(GlMaxScopes)
    \/ CallerEndScope
    \/ BeginFrame
    \/ BackendComplete

SpecGl == Init /\ [][NextGl]_vars

\* A caller that keeps to the protocol of GlProfiler for frames too:
\* begin_frame, LagScopes scopes, end_frame.
CallerBeginFrame ==
    /\ ~Recording
    /\ GlBeginFrame

CallerEndFrame ==
    /\ Recording /\ Idle
    /\ current_frame.f.next_query_idx = LagScopes
    /\ GlEndFrame(LagMaxFrame)

\* The device completes the pending queries in the order they were ended.
BackendCompleteInOrder ==
    /\ panic = ""
    /\ UNCHANGED vkvars
    /\ backend.pending # <<>>
    /\ backend' = Complete(backend, Head(backend.pending))
    /\ op' = "backend_complete"
    /\ UNCHANGED <<pvars, panic, lifecycle, current_frame, waiting_frames,
                   frame_pool, held, active, reported>>

\* SpecLag: the documented caller, with a backend that completes queries in
\* order and as late as it likes.
NextLag ==
    \/ CallerBeginFrame
    \/ CallerEndFrame
    \/ CallerCreateScope(LagScopes)
    \/ CallerBeginScope(LagScopes)
    \/ CallerEndScope
    \/ BackendCompleteInOrder

SpecLag == Init /\ [][NextLag]_vars


\* --------------------------------------------- actions: VulkanProfilerFrame
\* begin_frame reads the mapped memory as it is at the call.
VkBeginFrame ==
    /\ panic = ""
    /\ \E mapped \in mapped_slice(vk_frame, vk_frame.next_query_idx) :
       \E previous_results \in retrieve_previous_results(vk_frame, mapped) :
         LET r == vk_begin_frame(vk_frame, Profiler, previous_results) IN
         /\ vk_frame' = [r.f EXCEPT !.recording = (r.panic = "") \/ @]
         /\ SetProfiler(r.p)
         /\ panic' = r.panic
    /\ op' = "vk_begin_frame"
    /\ UNCHANGED <<lifecycle, api, vk_device, vk_active>>
    /\ UNCHANGED glvars

VkEndFrame ==
    /\ panic = ""
    /\ vk_device' = vk_end_frame(vk_frame, vk_device)
    /\ vk_frame' = [vk_frame EXCEPT !.recording = FALSE]
    /\ op' = "vk_end_frame"
    /\ UNCHANGED <<pvars, panic, lifecycle, api, vk_active>>
    /\ UNCHANGED glvars

\* begin_scope with the ScopeId the caller holds, which it passes on once.
VkBeginScope(maxScopes) ==
    /\ panic = ""
    /\ held # InvalidScopeId
    /\ vk_frame.next_query_idx < maxScopes
    /\ LET r == vk_begin_scope(vk_frame, held) IN
       /\ vk_frame' = r.f
       /\ panic' = r.panic
       /\ vk_active' = r.ret
    /\ held' = InvalidScopeId
    /\ op' = "vk_begin_scope"
    /\ UNCHANGED <<pvars, lifecycle, api, vk_device>>
    /\ UNCHANGED <<current_frame, waiting_frames, frame_pool, backend, active,
                   reported>>

\* end_scope with the VulkanActiveScope the caller holds, which the call
\* consumes.
VkEndScope ==
    /\ panic = ""
    /\ vk_active # NoQuery
    /\ LET r == vk_end_scope(vk_frame, vk_active) IN
       /\ vk_frame' = r.f
       /\ panic' = r.panic
    /\ vk_active' = NoQuery
    /\ op' = "vk_end_scope"
    /\ UNCHANGED <<pvars, lifecycle, api, vk_device>>
    /\ UNCHANGED glvars

\* The device executes the oldest copy command it was given.
VkDeviceExecute ==
    /\ panic = ""
    /\ vk_device # <<>>
    /\ \E ticks \in TicksOf(Head(vk_device)) :
         vk_frame' = [vk_frame EXCEPT !.buffer = Copied(@, ticks)]
    /\ vk_device' = Tail(vk_device)
    /\ UNCHANGED <<pvars, panic, op, lifecycle, api, vk_active>>
    /\ UNCHANGED glvars

\* The documented caller of a VulkanProfilerFrame: the frame of the
\* GpuProfiler is begun, then that of the slot; the scopes are recorded one
\* after the other; the slot's frame is ended, then the GpuProfiler's; and
\* the device has executed the commands before the next frame starts.
VkIdle == held = InvalidScopeId /\ vk_active = NoQuery

CallerVkProfilerBeginFrame ==
    /\ api = "vk"
    /\ ~vk_frame.recording /\ vk_device = <<>>
    /\ frames[frame_slot(Profiler)].state.tag # "Begin"
    /\ BeginFrame

CallerVkBeginFrame ==
    /\ api = "vk"
    /\ ~vk_frame.recording /\ op = "begin_frame"
    /\ VkBeginFrame

CallerVkCreateScope(maxScopes) ==
    /\ api = "vk"
    /\ vk_frame.recording /\ VkIdle
    /\ GlCreateScope(maxScopes)

CallerVkBeginScope(maxScopes) ==
    /\ api = "vk"
    /\ vk_frame.recording
    /\ VkBeginScope(maxScopes)

CallerVkEndScope ==
    /\ api = "vk"
    /\ vk_frame.recording
    /\ VkEndScope

CallerVkEndFrame ==
    /\ api = "vk"
    /\ vk_frame.recording /\ VkIdle
    /\ vk_frame.next_query_idx = Len(frames[frame_slot(Profiler)].scopes)
    /\ VkEndFrame

CallerVkProfilerEndFrame(maxFrame) ==
    /\ api = "vk"
    /\ op = "vk_end_frame"
    /\ EndFrame(maxFrame)

CallerVkDeviceExecute ==
    /\ api = "vk"
    /\ op = "end_frame"
    /\ VkDeviceExecute

\* The documented caller of a GlProfiler, with any number of scopes in a
\* frame.
CallerGlBeginFrame ==
    /\ api = "gl"
    /\ CallerBeginFrame

CallerGlEndFrame(maxFrame) ==
    /\ api = "gl"
    /\ Recording /\ Idle
    /\ current_frame.f.next_query_idx = Len(frames[frame_slot(Profiler)].scopes)
    /\ GlEndFrame(maxFrame)

CallerGlCreateScope(maxScopes) ==
    /\ api = "gl"
    /\ CallerCreateScope(maxScopes)

CallerGlBeginScope(maxScopes) ==
    /\ api = "gl"
    /\ CallerBeginScope(maxScopes)

CallerGlEndScope ==
    /\ api = "gl"
    /\ CallerEndScope

GlBackendComplete ==
    /\ api = "gl"
    /\ BackendComplete

\* SpecSlots: the documented caller of either backend, over few frames of
\* several scopes, with a GL backend that completes queries in any order
\* and a Vulkan device that writes any ticks.
NextSlots ==
    \/ CallerGlBeginFrame
    \/ CallerGlEndFrame(SlotMaxFrame)
    \/ CallerGlCreateScope(SlotMaxScopes)
    \/ CallerGlBeginScope(SlotMaxScopes)
    \/ CallerGlEndScope
    \/ GlBackendComplete
    \/ CallerVkProfilerBeginFrame
    \/ CallerVkBeginFrame
    \/ CallerVkCreateScope(SlotMaxScopes)
    \/ CallerVkBeginScope(SlotMaxScopes)
    \/ CallerVkEndScope
    \/ CallerVkEndFrame
    \/ CallerVkProfilerEndFrame(SlotMaxFrame)
    \/ CallerVkDeviceExecute

SpecSlots == (Init \/ InitVk) /\ [][NextSlots]_vars

\* create_scope by a caller that records many scopes in a frame and names
\* them in turn with the names there are.
CapacityCreateScope(maxScopes) ==
    /\ panic = ""
    /\ IF api = "gl" THEN Recording /\ Idle ELSE vk_frame.recording /\ VkIdle
    /\ Len(frames[frame_slot(Profiler)].scopes) < maxScopes
    /\ LET n == Len(frames[frame_slot(Profiler)].scopes)
           r == create_scope(Profiler, ScopeNames[(n % Len(ScopeNames)) + 1])
       IN  /\ SetProfiler(r.p)
           /\ panic' = r.panic
           /\ held' = r.ret
    /\ op' = "create_scope"
    /\ UNCHANGED <<lifecycle, current_frame, waiting_frames, frame_pool,
                   backend, active, reported>>
    /\ UNCHANGED vkvars

\* SpecCapacity: one frame of either backend, with as many scopes as the
\* slot takes and one more.
NextCapacity ==
    \/ CallerGlBeginFrame
    \/ CallerGlBeginScope(CapacityMaxScopes)
    \/ CallerGlEndScope
    \/ CallerVkProfilerBeginFrame
    \/ CallerVkBeginFrame
    \/ CallerVkBeginScope(CapacityMaxScopes)
    \/ CallerVkEndScope
    \/ CapacityCreateScope(CapacityMaxScopes)

SpecCapacity == (Init \/ InitVk) /\ [][NextCapacity]_vars

\* ------------------------------------------------------- properties: Spec
\* The reports a property of Spec or SpecRing quantifies over.  Those of
\* Spec carry any duration of Durations; those of SpecRing, whose properties
\* are about frame states and names, the durations the callers give.
SpecReports == Inputs(Profiler, SpecIds, MaxPairs, TRUE)
RingReports == Inputs(Profiler, RingIds, RingMaxPairs, FALSE)

\* The ring slot a report selects, and the logical frame it claims.
FirstFrame(d) == d[1].scope_id.frame
Target(d) == frames[FirstFrame(d) % MAX_FRAMES_IN_FLIGHT]

\* A report for a frame that was begun, given its scopes and ended: every
\* pair carries that frame and the index of a scope created in it.
ForEndedFrame(d) ==
    /\ d # <<>>
    /\ Target(d).state = End(FirstFrame(d))
    /\ \A k \in 1..Len(d) :
         /\ d[k].scope_id.frame = FirstFrame(d)
         /\ d[k].scope_id.scope < Len(Target(d).scopes)

DistinctScopes(d) ==
    \A j, k \in 1..Len(d) : j # k => d[j].scope_id.scope # d[k].scope_id.scope

\* What C1 promises of the report d: one TimedScope per pair, in the order
\* of the pairs, with the name created at the pair's scope index and the
\* pair's duration.
ReportsAsSupplied(d) ==
    LET r == report_durations(Profiler, d) IN
    /\ r.panic = ""
    /\ r.p.last_report.some
    /\ Len(r.p.last_report.scopes) = Len(d)
    /\ \A k \in 1..Len(d) :
         r.p.last_report.scopes[k] =
             [name |-> Target(d).scopes[d[k].scope_id.scope + 1].name,
              duration |-> d[k].duration]

\* create_scope hands out the ScopeIds of the current frame in call order.
CreateScopeNumbers ==
    \A s \in DOMAIN frames :
        frames[s].state.tag = "Begin" =>
            /\ frames[s].state.index = frame_idx
            /\ s = frame_slot(Profiler)
            /\ \A i \in 1..Len(frames[s].scopes) :
                 frames[s].scopes[i].name = ScopeNames[i]
            /\ create_scope(Profiler, "next").ret =
                   ScopeId(frame_idx, Len(frames[s].scopes))

\* C1 as stated: in every state, every report for an ended frame f whose
\* pairs all carry f yields one TimedScope per pair, in order, each with the
\* name given to create_scope for its scope index and the pair's duration.
C1_AsStated ==
    panic = "" =>
        \A d \in SpecReports : ForEndedFrame(d) => ReportsAsSupplied(d)

\* C1, amended: the same for every such report that names no scope index
\* twice (a name is moved out when first reported, and a second pair for the
\* same scope gets the empty string); and create_scope numbers the scopes of
\* the current frame 0, 1, ... in call order.
C1_ReportInOrder ==
    panic = "" =>
        /\ CreateScopeNumbers
        /\ \A d \in SpecReports :
             ForEndedFrame(d) /\ DistinctScopes(d) => ReportsAsSupplied(d)

\* A frame with scopes "draw", "blur" reported as (scope 1, scope 0).
C1_Witness ==
    /\ op = "report_durations"
    /\ panic = ""
    /\ last_report = Some(<<[name |-> "blur", duration |-> 250],
                            [name |-> "draw", duration |-> 500]>>)

\* C5: a report with a pair after the first whose frame differs from the
\* first pair's frame panics, and stores no report: last_report is left as it
\* was, so no TimedFrame mixes the scopes of two logical frames.
MixesFrames(d) ==
    \E k \in 2..Len(d) : d[k].scope_id.frame # FirstFrame(d)

C5_MixedFramesFatal ==
    panic = "" =>
        \A d \in SpecReports :
            MixesFrames(d) =>
                /\ report_durations(Profiler, d).panic # ""
                /\ report_durations(Profiler, d).p.last_report = last_report

\* The assertion on the frame of a later pair has fired.
C5_Witness ==
    /\ op = "report_durations"
    /\ panic = "assertion failed: scope_id.frame == first_scope_frame_idx"
    /\ \E s \in DOMAIN frames : frames[s].state = Reported

\* C7 as stated: a report of no pairs changes nothing: last_report and every
\* frame are as before.
C7_AsStated ==
    panic = "" =>
        /\ report_durations(Profiler, <<>>).panic = ""
        /\ report_durations(Profiler, <<>>).p = Profiler

\* C7, amended: a report of no pairs does not panic and leaves every frame
\* and frame_idx as they were, and it clears last_report.
C7_EmptyReportClears ==
    panic = "" =>
        /\ report_durations(Profiler, <<>>).panic = ""
        /\ report_durations(Profiler, <<>>).p =
               [Profiler EXCEPT !.last_report = None]

\* A report of no pairs was made after a frame had been reported.
C7_Witness ==
    /\ op = "report_durations"
    /\ panic = ""
    /\ last_report = None
    /\ \E s \in DOMAIN frames : frames[s].state = Reported

\* --------------------------------------------------- properties: SpecRing
\* C2: a report of at least one pair returns only when the ring slot of the
\* first pair's frame is in End (with the index of that frame), and it
\* panics when the slot is Reported, Begin or Invalid.
C2_ReportNeedsEnd ==
    panic = "" =>
        \A d \in RingReports :
            d # <<>> =>
                LET r == report_durations(Profiler, d) IN
                /\ r.panic = "" => Target(d).state = End(FirstFrame(d))
                /\ Target(d).state.tag = "Reported" =>
                       r.panic = "report_durations called twice"
                /\ Target(d).state.tag \in {"Begin", "Invalid"} =>
                       r.panic = "report_durations called before end_frame"

\* A frame was reported a second time.
C2_Witness ==
    /\ op = "report_durations"
    /\ panic = "report_durations called twice"

\* C4: unless the last successful begin_frame or end_frame was a begin_frame,
\* end_frame panics and leaves frame_idx as it was.
C4_EndNeedsBegin ==
    panic = "" /\ lifecycle # "begin_frame" =>
        /\ end_frame(Profiler).panic # ""
        /\ end_frame(Profiler).p.frame_idx = frame_idx

\* end_frame was called twice in a row after the ring had wrapped onto a slot
\* left in End.
C4_Witness ==
    /\ op = "end_frame"
    /\ panic = "end_frame called twice"
    /\ frame_idx >= MAX_FRAMES_IN_FLIGHT
    /\ lifecycle = "end_frame"

\* begin_frame has been called for the frame MAX_FRAMES_IN_FLIGHT after f.
Overwritten(f) ==
    \/ frame_idx > f + MAX_FRAMES_IN_FLIGHT
    \/ /\ frame_idx = f + MAX_FRAMES_IN_FLIGHT
       /\ frames[frame_slot(Profiler)].state.tag = "Begin"

\* C6: once begin_frame has wrapped onto the ring slot of frame f, every
\* report whose first pair carries f panics; and a report that returns hands
\* out only names created on its slot while the slot was in Begin for that
\* very frame (or while it was in no Begin at all).
C6_NoStaleAttribution ==
    panic = "" =>
        \A d \in RingReports :
            d # <<>> =>
                LET r == report_durations(Profiler, d) IN
                /\ Overwritten(FirstFrame(d)) => r.panic # ""
                /\ r.panic = "" =>
                       \A k \in 1..Len(d) :
                           Target(d).scopes[d[k].scope_id.scope + 1].born
                               \in {FirstFrame(d), NoFrame}

\* A report for a frame whose slot holds a later frame, ended, has panicked.
C6_Witness ==
    /\ op = "report_durations"
    /\ panic = "assertion failed: index == first_scope_frame_idx"
    /\ frame_idx > MAX_FRAMES_IN_FLIGHT

\* ----------------------------------------------------- properties: SpecGl
\* C3: whenever the last begin_frame or end_frame that GpuProfiler completed
\* is a begin_frame, a further begin_frame on it panics with "begin_frame
\* called twice", and whenever GlProfiler has a current_frame, begin_frame on
\* it panics with "begin_frame called twice".
C3_DoubleBeginFatal ==
    panic = "" =>
        /\ lifecycle = "begin_frame" =>
               begin_frame(Profiler).panic = "begin_frame called twice"
        /\ current_frame.some =>
               gl_begin_frame(Gl).panic = "begin_frame called twice"

\* A begin_frame on a GlProfiler that has a current_frame has panicked.
C3_Witness ==
    /\ op = "gl_begin_frame"
    /\ current_frame.some
    /\ panic = "begin_frame called twice"

Stamps(q) == [i \in 1..Len(q) |-> q[i].ended]
Increasing(q) == \A i, j \in 1..Len(q) : i < j => q[i] < q[j]
Available(f) == read_results(f, backend).some

\* C8: the slots reported and recycled so far were reported in the order
\* their end_frame was called, every slot still awaiting readback was ended
\* after all of them, the awaiting slots stand in the order they were ended,
\* and a begin_frame that returns leaves a front slot only if it is not
\* available.
C8_FifoDraining ==
    /\ Increasing(reported \o Stamps(waiting_frames))
    /\ (op = "gl_begin_frame" /\ panic = "" /\ waiting_frames # <<>>) =>
           ~Available(Head(waiting_frames))

\* A begin_frame has polled while a newer awaiting slot was available and an
\* older one was not, and has reported neither.
C8_Witness ==
    /\ op = "gl_begin_frame" /\ panic = ""
    /\ Len(waiting_frames) >= 2
    /\ ~Available(waiting_frames[1])
    /\ Available(waiting_frames[2])
    /\ waiting_frames[2].next_query_idx >= 1
    /\ reported = <<>>

\* ---------------------------------------------------- properties: SpecLag
\* The backend has not reported a query available so far.
Stalled == backend.available = {} /\ reported = <<>>

\* C9 as stated: when the backend has reported nothing available, the 10th
\* begin_frame is a fatal capacity violation.
C9_AsStated ==
    (Stalled /\ op = "gl_begin_frame" /\ frame_idx = MAX_WAITING_FRAMES - 1) =>
        panic = "OpenGL queries failed to become available"

\* C9: when the backend has reported nothing available, a call has panicked
\* exactly if it is the end_frame that made the awaiting queue 10 long, its
\* panic is the capacity violation, and it is the end_frame of the 10th
\* frame; so the 10th begin_frame and every call before it return.
C9_TenthEndFrameFatal ==
    Stalled =>
        /\ panic # "" <=>
               (op = "gl_end_frame" /\ Len(waiting_frames) = MAX_WAITING_FRAMES)
        /\ panic # "" =>
               /\ panic = "OpenGL queries failed to become available"
               /\ frame_idx = MAX_WAITING_FRAMES - 1

\* The 10th end_frame has panicked with nothing reported available.
C9_Witness ==
    /\ Stalled
    /\ op = "gl_end_frame"
    /\ panic = "OpenGL queries failed to become available"

\* C10 as stated: for the documented caller, a begin_frame that finds the
\* awaiting queue below its bound of 10 does not panic, however late the
\* backend reports the awaiting slots available.
C10_AsStated ==
    (op = "gl_begin_frame" /\ Len(waiting_frames) < MAX_WAITING_FRAMES) =>
        panic = ""

\* -------------------------------------------------- properties: SpecSlots
\* The names of a sequence of scopes, and the scopes the ring holds for a
\* logical frame.
Names(scopes) == [i \in 1..Len(scopes) |-> scopes[i].name]
Created(f) == frames[f % MAX_FRAMES_IN_FLIGHT].scopes

\* A begin_frame of the GlProfiler that reported awaiting slots: the last
\* of them, if it recorded a scope, gave the retained TimedFrame, which
\* names the scopes created in the slot's frame, each once and in the order
\* of their creation.
C11_GlStep ==
    (api = "gl" /\ Len(reported') > Len(reported)) =>
        LET w == waiting_frames[Len(reported') - Len(reported)] IN
        w.next_query_idx >= 1 =>
            /\ last_report'.some
            /\ Names(last_report'.scopes) = Names(Created(w.ended))

\* A begin_frame of the VulkanProfilerFrame after a frame that recorded a
\* scope: it returns, and the retained TimedFrame names the scopes created
\* in that frame, each once and in the order of their creation.
C11_VkStep ==
    (api = "vk" /\ op' = "vk_begin_frame" /\ vk_frame.next_query_idx >= 1) =>
        /\ panic' = ""
        /\ last_report'.some
        /\ Names(last_report'.scopes) = Names(Created(frame_idx - 1))

\* C11: when every scope created in a frame is begun once on the frame
\* slot, in the order of creation, and ended before end_frame, the
\* TimedFrame made from the slot's readback has as many scopes as were
\* created in the frame, in the order of their creation; with either
\* backend.
C11_CreationOrder == [][C11_GlStep /\ C11_VkStep]_vars

\* A VulkanProfilerFrame reported a frame of two scopes.
C11_Witness ==
    /\ api = "vk" /\ op = "vk_begin_frame" /\ panic = ""
    /\ last_report.some
    /\ Names(last_report.scopes) = <<"draw", "blur">>

\* --------------------------------------------- properties: SpecRing, again
InBegin == {s \in RingSlots : frames[s].state.tag = "Begin"}

\* C12: at most one of the ring slots is in Begin, and it is the slot of
\* the current frame, frame_idx % MAX_FRAMES_IN_FLIGHT.
C12_OneBegin == InBegin \subseteq {frame_idx % MAX_FRAMES_IN_FLIGHT}

\* A frame is in Begin after the ring has wrapped, every other slot having
\* been in Begin before.
C12_Witness ==
    /\ frame_idx > MAX_FRAMES_IN_FLIGHT
    /\ InBegin = {frame_idx % MAX_FRAMES_IN_FLIGHT}
    /\ \A s \in RingSlots : frames[s].state.tag # "Invalid"

\* The indices the ring slots carry.
C19_Indices ==
    \A s \in RingSlots :
        LET st == frames[s].state IN
        /\ st.tag \in {"Begin", "End"} => st.index % MAX_FRAMES_IN_FLIGHT = s
        /\ st.tag = "Begin" => st.index = frame_idx
        /\ st.tag = "End" => st.index < frame_idx

\* A step changes frame_idx exactly if it is an end_frame that returns, and
\* then by one.
C19_Step ==
    /\ frame_idx' # frame_idx =>
           op' = "end_frame" /\ panic' = "" /\ frame_idx' = frame_idx + 1
    /\ (op' = "end_frame" /\ panic' = "") => frame_idx' = frame_idx + 1

\* C19: a ring slot in Begin or End carries an index that selects it; the
\* index of a slot in Begin is frame_idx and that of a slot in End is less;
\* and frame_idx, zero at first, counts the end_frame calls that returned,
\* no other operation changing it.
C19_FrameIndex == [](C19_Indices /\ frame_idx >= 0) /\ [][C19_Step]_vars

\* The ring has wrapped: a slot is in End for a frame after the fourth,
\* another in Begin.
C19_Witness ==
    /\ op = "begin_frame" /\ panic = ""
    /\ frame_idx > MAX_FRAMES_IN_FLIGHT
    /\ frames[frame_slot(Profiler)].state = Begin(frame_idx)
    /\ \E s \in RingSlots : frames[s].state = End(frame_idx - 1)

\* ------------------------------------------------- properties: Spec, again
\* What begin_frame, end_frame, create_scope and take_last_report do to the
\* retained report: the first three keep it, the last returns it and leaves
\* none.
C13_Calls ==
    /\ begin_frame(Profiler).p.last_report = last_report
    /\ end_frame(Profiler).p.last_report = last_report
    /\ \A i \in 1..Len(ScopeNames) :
           create_scope(Profiler, ScopeNames[i]).p.last_report = last_report
    /\ take_last_report(Profiler).ret = last_report
    /\ take_last_report(Profiler).p.last_report = None
    /\ take_last_report(take_last_report(Profiler).p).ret = None

\* A report_durations of at least one pair that returns turns a frame to
\* Reported, and no other call of the program changes a frame's state to
\* that: so a step shows which report it made.  One that returns having
\* consumed pairs retains a TimedFrame, with a scope for each pair; one
\* that panics keeps what was retained.
ReportsPairs ==
    /\ op' = "report_durations" /\ panic' = ""
    /\ \E s \in RingSlots :
          frames'[s].state = Reported /\ frames[s].state # Reported
ReportsNothing ==
    /\ op' = "report_durations" /\ panic' = ""
    /\ ~ReportsPairs

C13_Step ==
    /\ op' \in {"begin_frame", "end_frame", "create_scope", "last_report"} =>
           last_report' = last_report
    /\ op' = "last_report" => UNCHANGED <<frames, frame_idx, panic>>
    /\ op' = "take_last_report" => last_report' = None
    /\ ReportsPairs => last_report'.some /\ last_report'.scopes # <<>>
    /\ (op' = "report_durations" /\ panic' # "") => last_report' = last_report

InNanoseconds(start, end, period, ns) ==
    LET ticks == IF end >= start THEN end - start ELSE 0 IN
    /\ ns >= 0
    /\ ns * period.den <= ticks * period.num
    /\ ticks * period.num < (ns + 1) * period.den

\* C14: the duration reported for the tick pair [start, end] of a query is
\* (end - start) times the tick period when end >= start and 0 when
\* end < start, never negative: every TimedScope a VulkanProfilerFrame
\* reports carries that of the pair the device wrote for its query, and
\* [1000, 1500] at 2 ns a tick gives 1000, [1500, 1000] gives 0.
C14_SaturatingDuration ==
    /\ duration_ns(<<1000, 1500>>, [num |-> 2, den |-> 1]) = 1000
    /\ duration_ns(<<1500, 1000>>, [num |-> 2, den |-> 1]) = 0
    /\ (api = "vk" /\ op = "vk_begin_frame" /\ panic = "" /\ last_report.some) =>
           \A k \in 1..Len(last_report.scopes) :
               InNanoseconds(vk_frame.buffer[k][1], vk_frame.buffer[k][2],
                             vk_frame.timestamp_period,
                             last_report.scopes[k].duration)

\* A device with a period of 2 ns wrote [1000, 1500] and [1500, 1000] for
\* the two scopes of a frame, which were reported with 1000 ns and 0 ns.
C14_Witness ==
    /\ api = "vk" /\ op = "vk_begin_frame" /\ panic = ""
    /\ vk_frame.timestamp_period = [num |-> 2, den |-> 1]
    /\ vk_frame.buffer = <<(<<1000, 1500>>), (<<1500, 1000>>)>>
    /\ last_report = Some(<<[name |-> "draw", duration |-> 1000],
                            [name |-> "blur", duration |-> 0]>>)

\* ------------------------------------------------ properties: SpecCapacity
\* The frame slot being recorded, the number of begin_scope calls made on
\* it in this recording period, and the ScopeId its table holds at index i.
RecordingSlot == IF api = "gl" THEN current_frame.f ELSE vk_frame
BeginScopeCalls == RecordingSlot.next_query_idx
RecordedAt(i) ==
    IF api = "gl" THEN RecordingSlot.query_scope_ids[i + 1]
    ELSE from_u64(RecordingSlot.query_scope_ids[i + 1])

\* C15 as stated: of the begin_scope calls of a recording period the first
\* MAX_QUERY_COUNT return, each having recorded its ScopeId at the index it
\* claimed, and the next one panics; with either backend.
C15_AsStated ==
    op \in {"gl_begin_scope", "vk_begin_scope"} =>
        /\ BeginScopeCalls <= MAX_QUERY_COUNT =>
               /\ panic = ""
               /\ RecordedAt(BeginScopeCalls - 1)
                      = ScopeId(frame_idx, BeginScopeCalls - 1)
        /\ BeginScopeCalls = MAX_QUERY_COUNT + 1 => panic # ""

\* The queries a slot has used, and whether the backend reports every one
\* of them available.
Queries(f) == {Handle(f, i) : i \in 0..(f.next_query_idx - 1)}
AllAvailable(f) == Queries(f) \subseteq backend.available

\* read_results on an awaiting slot: nothing, and the slot as it was, unless
\* every query is available; else one pair for each query, with the ScopeId
\* recorded at its index and the result of its handle.
C16_Poll(f) ==
    LET r == read_results(f, backend) IN
    /\ r.some <=> AllAvailable(f)
    /\ ~r.some => r.f = f /\ r.pairs = <<>>
    /\ r.some =>
          /\ Len(r.pairs) = f.next_query_idx
          /\ \A i \in 1..Len(r.pairs) :
                r.pairs[i] = [scope_id |-> f.query_scope_ids[i],
                              duration |-> QueryResult(Handle(f, i - 1))]

\* A begin_frame reports and recycles the front slot only if every query of
\* it was available, and leaves the awaiting slots it does not report as
\* they were.
C16_Step ==
    api = "gl" =>
        /\ Len(reported') > Len(reported) => AllAvailable(Head(waiting_frames))
        /\ (op' = "gl_begin_frame" /\ waiting_frames # <<>>
               /\ ~AllAvailable(Head(waiting_frames))) =>
              waiting_frames' = waiting_frames /\ reported' = reported

\* C16: read_results of the GL slot returns results only when every query
\* below next_query_idx is available; when any one is not, the last or
\* another, it returns nothing and reads no result; and when it returns, it
\* returns next_query_idx pairs.
C16_AllOrNothing ==
    /\ [](panic = "" =>
            \A k \in 1..Len(waiting_frames) : C16_Poll(waiting_frames[k]))
    /\ [][C16_Step]_vars

\* begin_frame polled a front slot of two queries of which the last was
\* available and the first was not, and left it awaiting.
C16_Witness ==
    /\ api = "gl" /\ op = "gl_begin_frame" /\ panic = ""
    /\ waiting_frames # <<>>
    /\ Head(waiting_frames).next_query_idx = 2
    /\ Handle(Head(waiting_frames), 1) \in backend.available
    /\ Handle(Head(waiting_frames), 0) \notin backend.available
    /\ Head(waiting_frames).results_buffer = <<>>

\* The GL slots a GlProfiler holds, each known by the number of its
\* GenQueries call, and the next_query_idx of the slot numbered h.
SlotsOf(cur, wait, pool) ==
    (IF cur.some THEN {cur.f} ELSE {})
        \cup {wait[i] : i \in 1..Len(wait)}
        \cup {pool[i] : i \in 1..Len(pool)}
SlotNumbers(cur, wait, pool) ==
    {f.query_handles : f \in SlotsOf(cur, wait, pool)}
IdxOf(h, cur, wait, pool) ==
    (CHOOSE f \in SlotsOf(cur, wait, pool) : f.query_handles = h).next_query_idx

\* The slot h starts a recording period in this step: it becomes the
\* current frame.
StartsRecording(h) ==
    /\ ~current_frame.some
    /\ current_frame'.some /\ current_frame'.f.query_handles = h

\* The step is a begin_scope on the slot h, which moves next_query_idx by
\* one.
BeginsScope(h) ==
    /\ op' = "gl_begin_scope"
    /\ current_frame.some /\ current_frame.f.query_handles = h
    /\ IdxOf(h, current_frame', waiting_frames', frame_pool')
         = IdxOf(h, current_frame, waiting_frames, frame_pool) + 1

\* The step is a begin_frame that reads back the results of the awaiting
\* slot h and recycles it.
Recycles(h) ==
    /\ op' = "gl_begin_frame"
    /\ \E k \in 1..Len(waiting_frames) :
          /\ waiting_frames[k].query_handles = h
          /\ k <= Len(reported') - Len(reported)
          /\ AllAvailable(waiting_frames[k])

\* What holds of next_query_idx with either reading of the claim: a slot
\* starts recording with 0; a step that is not a begin_scope and does not
\* set it to zero leaves it as it is, so end_scope, end_frame and a poll
\* that finds the results unavailable do; of the Vulkan slot, begin_scope
\* adds one and begin_frame sets zero.
C17_Common ==
    /\ \A h \in SlotNumbers(current_frame', waiting_frames', frame_pool') :
          StartsRecording(h) =>
              IdxOf(h, current_frame', waiting_frames', frame_pool') = 0
    /\ \A h \in SlotNumbers(current_frame, waiting_frames, frame_pool) :
          LET before == IdxOf(h, current_frame, waiting_frames, frame_pool)
              after == IdxOf(h, current_frame', waiting_frames', frame_pool')
          IN  /\ h \in SlotNumbers(current_frame', waiting_frames', frame_pool')
              /\ after # before => BeginsScope(h) \/ after = 0
              /\ op' \in {"gl_end_scope", "gl_end_frame"} => after = before
              /\ op' = "gl_begin_scope" /\ current_frame.some
                    /\ current_frame.f.query_handles = h => after = before + 1
    /\ vk_frame'.next_query_idx # vk_frame.next_query_idx =>
          \/ /\ op' = "vk_begin_scope"
             /\ vk_frame'.next_query_idx = vk_frame.next_query_idx + 1
          \/ /\ op' = "vk_begin_frame"
             /\ vk_frame'.next_query_idx = 0
    /\ op' = "vk_begin_scope" =>
          vk_frame'.next_query_idx = vk_frame.next_query_idx + 1
    /\ (op' = "vk_begin_frame" /\ panic' = "") => vk_frame'.next_query_idx = 0

\* Where next_query_idx of a slot goes back to zero.
ResetsOnlyWhen(P(_)) ==
    \A h \in SlotNumbers(current_frame, waiting_frames, frame_pool) :
        LET before == IdxOf(h, current_frame, waiting_frames, frame_pool)
            after == IdxOf(h, current_frame', waiting_frames', frame_pool')
        IN  (after = 0 /\ before > 0) => P(h)

\* C17 as stated: next_query_idx of a slot is 0 when the slot starts a
\* recording period, grows by one with each begin_scope, is left alone by
\* end_scope, end_frame and unsuccessful polls, and goes back to zero only
\* in the step in which the slot starts a new recording period.
C17_AsStated == [][C17_Common /\ ResetsOnlyWhen(StartsRecording)]_vars

\* C17, amended: the same, but the counter of a GL slot goes back to zero
\* in the begin_frame that reads back its results and recycles it, whether
\* or not that begin_frame takes the slot for the new frame; a slot in the
\* free pool has it at zero.
C17_CounterResets ==
    /\ [][C17_Common /\ ResetsOnlyWhen(Recycles)]_vars
    /\ [](\A i \in 1..Len(frame_pool) : frame_pool[i].next_query_idx = 0)

\* A begin_frame has recycled two slots that had recorded scopes: one is
\* recording again, the other lies in the free pool with its counter at
\* zero.
C17_Witness ==
    /\ api = "gl" /\ op = "gl_begin_frame" /\ panic = ""
    /\ current_frame.some /\ current_frame.f.next_query_idx = 0
    /\ Len(frame_pool) = 1 /\ frame_pool[1].next_query_idx = 0
    /\ Len(reported) = 2
    /\ \A s \in {0, 1} : frames[s].state = Reported

\* ------------------------------------------- properties: SpecLag, again
\* The slots constructed so far are numbered 1..backend.generated.  The
\* places of the GlProfiler, as the sequence of the slot numbers they hold.
Held ==
    (IF current_frame.some THEN <<current_frame.f.query_handles>> ELSE <<>>)
        \o [i \in 1..Len(waiting_frames) |-> waiting_frames[i].query_handles]
        \o [i \in 1..Len(frame_pool) |-> frame_pool[i].query_handles]

\* Every slot constructed is held in exactly one place, once.
C18_Conserved ==
    /\ Len(Held) = backend.generated
    /\ {Held[i] : i \in 1..Len(Held)} = 1..backend.generated

\* A slot is constructed only by a begin_frame that finds the free pool
\* empty after it has looked for results, and becomes the current frame.
C18_Step ==
    backend.generated' # backend.generated =>
        /\ op' = "gl_begin_frame"
        /\ backend.generated' = backend.generated + 1
        /\ frame_pool = <<>> /\ reported' = reported
        /\ frame_pool' = <<>>
        /\ current_frame'.some
        /\ current_frame'.f.query_handles = backend.generated'

\* C18: as long as no call has panicked, every GlProfilerFrame constructed
\* is in exactly one of current_frame, waiting_frames and frame_pool; one
\* is constructed only when begin_frame finds frame_pool empty; and there
\* are never more than 10 of them.
C18_SlotsConserved ==
    /\ [](panic = "" =>
            C18_Conserved /\ backend.generated <= MAX_WAITING_FRAMES)
    /\ [][C18_Step]_vars

\* Ten slots have been constructed: nine await their results and the tenth
\* is recording.
C18_Witness ==
    /\ panic = ""
    /\ backend.generated = MAX_WAITING_FRAMES
    /\ Len(waiting_frames) = MAX_WAITING_FRAMES - 1
    /\ current_frame.some /\ current_frame.f.query_handles = MAX_WAITING_FRAMES

\* ------------------------------------------- properties: SpecSlots, once more
\* The awaiting slot at position k recorded no scope and every slot before
\* it has its results available, so that a begin_frame comes to it.
EmptyAtFront(k) ==
    /\ waiting_frames[k].next_query_idx = 0
    /\ \A j \in 1..(k - 1) : AllAvailable(waiting_frames[j])

\* A begin_frame that comes to a slot without scopes recycles it, whatever
\* the backend holds available; the ring slot of its frame stays in End;
\* and if it is the last slot reported, no report is retained.
C20_Step ==
    (api = "gl" /\ op' = "gl_begin_frame") =>
        \A k \in 1..Len(waiting_frames) :
            EmptyAtFront(k) =>
                LET f == waiting_frames[k]
                    n == Len(reported') - Len(reported)
                IN  /\ panic' = ""
                    /\ n >= k
                    /\ reported'[Len(reported) + k] = f.ended
                    /\ f.query_handles \in
                          SlotNumbers(current_frame', <<>>, frame_pool')
                    /\ frames'[f.ended % MAX_FRAMES_IN_FLIGHT].state = End(f.ended)
                    /\ n = k => last_report' = None

\* Polling a slot without scopes gives results, none of them, and the
\* report of these changes no frame.
C20_EmptyPoll ==
    \A k \in 1..Len(waiting_frames) :
        waiting_frames[k].next_query_idx = 0 =>
            LET r == read_results(waiting_frames[k], backend) IN
            /\ r.some /\ r.pairs = <<>>
            /\ report_durations(Profiler, r.pairs).p.frames = frames

\* C20: a GL slot that recorded no scope counts as available: the
\* begin_frame at which it is at the front of the awaiting queue recycles
\* it whatever the backend reports, the report made for it is empty, and
\* the frame it recorded is not turned to Reported: it stays in End.
C20_EmptySlotRecycled ==
    /\ [](panic = "" => C20_EmptyPoll)
    /\ [](\A i \in 1..Len(reported) :
             Created(reported[i]) = <<>> =>
                 frames[reported[i] % MAX_FRAMES_IN_FLIGHT].state = End(reported[i]))
    /\ [][C20_Step]_vars

\* A frame without scopes was recorded, ended and, with nothing available
\* in the backend, recycled by the next begin_frame; it is still in End.
C20_Witness ==
    /\ api = "gl" /\ op = "gl_begin_frame" /\ panic = ""
    /\ reported = <<0>>
    /\ backend.available = {}
    /\ frames[0] = [state |-> End(0), scopes |-> <<>>]
    /\ last_report = None
    /\ current_frame.some /\ current_frame.f.query_handles = 1

====
